---- MODULE Spec2Model ----
(***************************************************************************)
(* VendoPrint: the payment-acquisition and job-authorization state machine *)
(* of src/app.py (the Flask handlers and the print thread) and the pulse   *)
(* decoder of src/modules/payment_system.py.                               *)
(*                                                                         *)
(* Python None is the string "None" for a path and the empty sequence for  *)
(* an optional number (<<v>> holds the value v).  Money is a float in the  *)
(* source; every amount here is a whole number of pesos, which floats hold *)
(* exactly.  The wall clock of app.py (now) counts units of 30 s, the      *)
(* decoder's clock (dnow) units of 1.5 s: the source compares a reading of *)
(* time.time() only with another reading taken by the same component.      *)
(***************************************************************************)
EXTENDS Integers, Sequences, FiniteSets, TLC

VARIABLES
    current_job,    \* app.py: the global job record
    pt,             \* the print threads: the position and the argument job of each
    resp,           \* the response returned in the last step (none when the step is no request)
    now,            \* time.time() as app.py reads it, in units of 30 s
    initialized,    \* PaymentSystem.initialized
    callback,       \* PaymentSystem.callback is set
    pulse_count,    \* PaymentSystem.pulse_count
    last_pulse_time,\* PaymentSystem.last_pulse_time
    timer,          \* PaymentSystem._timer: the deadline of the armed Timer, 0 when none is armed
    fired,          \* Timer threads whose wait has ended and that wait for the lock
    dnow,           \* time.time() as the decoder reads it, in units of 1.5 s
    credited,       \* history: coin values credited since paid was last reset
    inserted,       \* history: coin values credited since the last upload
    open,           \* history: edges handled and not yet finalized or reset
    burst,          \* history: the current burst of edges and what was made of it
    closed,         \* history: the burst before the current one
    fin,            \* history: the edge handled and the finalization made in the last step, and whether the callback raised
    rq              \* the requests in flight when handlers interleave

vars == <<current_job, pt, resp, now, initialized, callback, pulse_count,
          last_pulse_time, timer, fired, dnow, credited, inserted, open, burst,
          closed, fin, rq>>

jobVars == <<current_job, pt, resp, now, credited, inserted>>
decVars == <<pulse_count, last_pulse_time, timer, fired, dnow, open, burst,
             closed, fin>>
hwVars == <<initialized, callback>>

-----------------------------------------------------------------------------
(* Bounds of the model *)

MaxPaid == 10
MaxTime == 3
MaxDecTime == 6
MaxPulses == 6
MaxFired == 2

(* Program constants *)

PRICE_PER_PAGE_BW == 5
PRICE_PER_PAGE_COLOR == 10
PendingExpiry == 1
PulseTimeout == 1

None == "None"
NoValue == <<>>
Some(v) == <<v>>

COIN_VALUES == {1, 5, 10, 20}

StartTime == 1
DecStartTime == PulseTimeout + 1

-----------------------------------------------------------------------------
(* Inputs *)

Files == {"f1"}
UploadPages == {2}
FileTypes == {"document", "photo"}

AllPages == [kind |-> "all", start |-> 0, end |-> 0]
NoRange == [kind |-> "none", start |-> 0, end |-> 0]
Range(a, b) == [kind |-> "range", start |-> a, end |-> b]

CostRequests ==
    { [pages |-> NoValue, copies |-> 1, color_mode |-> "grayscale",
       page_range |-> NoRange, orientation |-> "portrait"],
      [pages |-> NoValue, copies |-> 2, color_mode |-> "color",
       page_range |-> AllPages, orientation |-> "landscape"],
      [pages |-> NoValue, copies |-> 1, color_mode |-> "grayscale",
       page_range |-> Range(1, 2), orientation |-> "portrait"] }

ConfirmValues == {0, 5, 10}
HardwareCoins == {5, 10}
SimulatedCoins == {5}

-----------------------------------------------------------------------------
(* The job record *)

InitialJob ==
    [file_path |-> None, file_type |-> None, pages |-> 0, copies |-> 1,
     page_range |-> NoRange, orientation |-> "portrait",
     color_mode |-> "grayscale", cost |-> 0, paid |-> 0, status |-> "idle",
     current_page |-> 0, total_pages |-> 0,
     pending_coin |-> NoValue, pending_coin_time |-> 0]

FreshJob(file, ftype, pages) ==
    [file_path |-> file, file_type |-> ftype, pages |-> pages, copies |-> 1,
     page_range |-> NoRange, orientation |-> "portrait",
     color_mode |-> "grayscale", cost |-> 0, paid |-> 0, status |-> "uploaded",
     current_page |-> 0, total_pages |-> 0,
     pending_coin |-> NoValue, pending_coin_time |-> 0]

(* Python truth of an optional number: None and 0.0 are false *)
Truthy(p) == p # NoValue /\ p[1] # 0

Max(a, b) == IF a >= b THEN a ELSE b

(* A response: the handler, whether it succeeded, its error message, and the
   JSON body (the ledger fields of payment_status and coin_inserted, the
   pending coin of get_pending_coin).  value and found are history: the value
   a coin_inserted request stated and the pending coin the handler read
   (coin_inserted and get_pending_coin). *)
Response(op, ok, error, job, can) ==
    [op |-> op, ok |-> ok, error |-> error,
     paid |-> job.paid, cost |-> job.cost,
     remaining |-> Max(0, job.cost - job.paid), can_print |-> can,
     pending_coin |-> NoValue, has_pending |-> FALSE,
     value |-> 0, found |-> NoValue]

NoResponse == Response("none", FALSE, "", InitialJob, FALSE)

(* No response, but the record of a call of coin_inserted_callback by the
   decoder: the value it was called with and the pending coin it found *)
CallbackCalled(coin_value, pending) ==
    [NoResponse EXCEPT !.op = "coin_callback", !.value = coin_value,
                       !.found = pending]

(* start_print, line 491: current_job.copy(), the fields print_job_thread and
   the authorization read *)
Snapshot(job) ==
    [file_path |-> job.file_path, pages |-> job.pages, copies |-> job.copies,
     page_range |-> job.page_range, orientation |-> job.orientation,
     color_mode |-> job.color_mode, cost |-> job.cost, paid |-> job.paid,
     status |-> job.status]

(* A print thread: its position in print_job_thread, its argument and its
   local total_pages.  replaced is history: an upload has replaced the job
   since the thread was started; it is kept when the thread ends, until the
   next upload. *)
NoThread ==
    [pc |-> "none", job |-> Snapshot(InitialJob), total |-> 0, replaced |-> FALSE]

(* One print thread per start_print that passed its checks (line 491); two of
   them can be alive when an upload falls into a print.  A specification
   names the slots its threads may take. *)
Threads == {"t1", "t2"}
OneThread == {"t1"}
NoThreads == [t \in Threads |-> NoThread]
FreeThread(slots) ==
    IF \E t \in slots : pt[t].pc = "none"
    THEN CHOOSE t \in slots : pt[t].pc = "none" /\ (t = "t1" \/ pt["t1"].pc # "none")
    ELSE "none"
Started(t, job) ==
    [pt EXCEPT ![t] = [pc |-> "begin", job |-> Snapshot(job), total |-> 0,
                       replaced |-> FALSE]]
Replaced ==
    [t \in Threads |-> IF pt[t].pc = "none" THEN NoThread
                       ELSE [pt[t] EXCEPT !.replaced = TRUE]]
Ended(t) ==
    [pt EXCEPT ![t] = [NoThread EXCEPT !.replaced = pt[t].replaced]]

-----------------------------------------------------------------------------
(* app.py: the handlers as functions of the job record *)

(* upload_file, lines 177-193: the record a successful upload installs *)
upload_file(file, ftype, pages) ==
    FreshJob(file, ftype, IF ftype = "photo" THEN 1 ELSE pages)

(* calculate_cost, lines 246-252 *)
ActualPages(pages, copies, page_range) ==
    IF page_range.kind = "range"
    THEN (page_range.end - page_range.start + 1) * copies
    ELSE pages * copies

(* calculate_cost, line 255 *)
PricePerPage(color_mode) ==
    IF color_mode = "color" THEN PRICE_PER_PAGE_COLOR ELSE PRICE_PER_PAGE_BW

(* calculate_cost, lines 239-256 *)
TotalCost(job, data) ==
    LET pages == IF data.pages = NoValue THEN job.pages ELSE data.pages[1]
    IN  ActualPages(pages, data.copies, data.page_range)
            * PricePerPage(data.color_mode)

(* A calculation that also initializes the paid amount *)
calculate_cost_initpaid(job, data) ==
    [job EXCEPT !.copies = data.copies,
                !.page_range = data.page_range,
                !.orientation = data.orientation,
                !.color_mode = data.color_mode,
                !.cost = TotalCost(job, data),
                !.paid = 0]

(* calculate_cost, lines 258-263 *)
calculate_cost(job, data) ==
    [job EXCEPT !.copies = data.copies,
                !.page_range = data.page_range,
                !.orientation = data.orientation,
                !.color_mode = data.color_mode,
                !.cost = TotalCost(job, data)]

(* A status reply that forgets the check of the job status *)
CanPrintStatus_nostatus(job) ==
    /\ job.cost > 0
    /\ job.paid >= job.cost
    /\ job.file_path # None

(* payment_status, lines 287-292, and coin_inserted, lines 446-450 *)
CanPrintStatus(job) ==
    /\ job.cost > 0
    /\ job.paid >= job.cost
    /\ job.file_path # None
    /\ job.status = "uploaded"

CanPrintAfterCoin(job) ==
    /\ job.paid >= job.cost
    /\ job.cost > 0
    /\ job.status = "uploaded"

(* get_pending_coin, line 310 *)
PendingExpired(job, t) ==
    Truthy(job.pending_coin) /\ (t - job.pending_coin_time) > PendingExpiry

(* A query that reports an expired coin absent and leaves it in the record *)
get_pending_coin_keep(job, t) == job

(* get_pending_coin, lines 306-313 *)
get_pending_coin(job, t) ==
    IF PendingExpired(job, t)
    THEN [job EXCEPT !.pending_coin = NoValue]
    ELSE job

(* A callback that credits the detected coin at once *)
coin_inserted_callback_credit(job, coin_value, t) ==
    [job EXCEPT !.pending_coin = Some(coin_value), !.pending_coin_time = t,
                !.paid = @ + coin_value]

(* A callback that keeps the coin that is already pending *)
coin_inserted_callback_first(job, coin_value, t) ==
    IF job.pending_coin # NoValue THEN job
    ELSE [job EXCEPT !.pending_coin = Some(coin_value), !.pending_coin_time = t]

(* coin_inserted_callback, lines 621-626 *)
coin_inserted_callback(job, coin_value, t) ==
    [job EXCEPT !.pending_coin = Some(coin_value), !.pending_coin_time = t]

(* Preconditions without the check of the job status *)
PaymentPrecondition_nostatus(job) ==
    IF job.file_path = None THEN "Please upload a file first"
    ELSE IF job.cost <= 0 THEN "Cost not calculated. Please wait."
    ELSE ""

(* coin_inserted, lines 386-399: the error of the first precondition that fails *)
PaymentPrecondition(job) ==
    IF job.file_path = None THEN "Please upload a file first"
    ELSE IF job.cost <= 0 THEN "Cost not calculated. Please wait."
    ELSE IF job.status # "uploaded" THEN "Cannot accept coins at this time"
    ELSE ""

(* Coin logic that takes no coin unless the hardware has detected one *)
CoinError_manualoff(job, requested_value) ==
    IF Truthy(job.pending_coin)
    THEN IF requested_value # job.pending_coin[1]
         THEN "Please confirm the detected coin value"
         ELSE ""
    ELSE "Invalid coin value"

(* Coin logic that takes a manual insertion of any value *)
CoinError_anyvalue(job, requested_value) ==
    IF Truthy(job.pending_coin)
    THEN IF requested_value # job.pending_coin[1]
         THEN "Please confirm the detected coin value"
         ELSE ""
    ELSE ""

(* Coin logic that takes the pending coin whatever value the request states *)
CoinError_nomatch(job, requested_value) ==
    IF Truthy(job.pending_coin) THEN ""
    ELSE IF requested_value <= 0 THEN "Invalid coin value" ELSE ""

(* coin_inserted, lines 408-429: the error of the coin logic, "" when the coin is accepted *)
CoinError(job, requested_value) ==
    IF Truthy(job.pending_coin)
    THEN IF requested_value # job.pending_coin[1]
         THEN "Please confirm the detected coin value"
         ELSE ""
    ELSE IF requested_value <= 0 THEN "Invalid coin value" ELSE ""

(* coin_inserted, lines 419 and 428 *)
CoinValue(job, requested_value) ==
    IF Truthy(job.pending_coin) THEN job.pending_coin[1] ELSE requested_value

(* An accepted coin that stays pending *)
AcceptCoin_keep(job, requested_value) ==
    [job EXCEPT !.paid = @ + CoinValue(job, requested_value)]

(* coin_inserted, lines 418 and 440: the record after an accepted coin *)
AcceptCoin(job, requested_value) ==
    [job EXCEPT !.pending_coin =
                    IF Truthy(job.pending_coin) THEN NoValue ELSE @,
                !.paid = @ + CoinValue(job, requested_value)]

(* coin_inserted, lines 386-440: "" when the coin is credited *)
CoinInsertedError(job, requested_value) ==
    IF PaymentPrecondition(job) # "" THEN PaymentPrecondition(job)
    ELSE CoinError(job, requested_value)

coin_inserted(job, requested_value) ==
    IF CoinInsertedError(job, requested_value) = ""
    THEN AcceptCoin(job, requested_value)
    ELSE job

(* An authorization that looks at the status before the payment *)
Authorize_statusfirst(job) ==
    IF job.cost <= 0 THEN "Cost not calculated"
    ELSE IF job.status # "uploaded" THEN "No file ready for printing"
    ELSE IF job.paid < job.cost THEN "Insufficient payment"
    ELSE IF job.file_path = None THEN "No file uploaded"
    ELSE ""

(* An authorization that forgets the file check *)
Authorize_nofile(job) ==
    IF job.cost <= 0 THEN "Cost not calculated"
    ELSE IF job.paid < job.cost THEN "Insufficient payment"
    ELSE IF job.status # "uploaded" THEN "No file ready for printing"
    ELSE ""

(* start_print, lines 474-488: the error of the first check that fails, "" when authorized *)
Authorize(job) ==
    IF job.cost <= 0 THEN "Cost not calculated"
    ELSE IF job.paid < job.cost THEN "Insufficient payment"
    ELSE IF job.status # "uploaded" THEN "No file ready for printing"
    ELSE IF job.file_path = None THEN "No file uploaded"
    ELSE ""

(* print_job_thread, lines 553-564 *)
TotalPages(job) ==
    ActualPages(job.pages, job.copies, job.page_range)

-----------------------------------------------------------------------------
(* payment_system.py: the decoder *)

(* A decoder that takes every pulse count for a coin of that value *)
determine_coin_value_any(n) == n

(* PaymentSystem._determine_coin_value, lines 170-181 *)
determine_coin_value(n) ==
    IF n = 1 THEN 1
    ELSE IF n = 5 THEN 5
    ELSE IF n = 10 THEN 10
    ELSE IF n = 20 THEN 20
    ELSE 0

-----------------------------------------------------------------------------
(* The state after startup: app.py lines 45-56 and 667-678, PaymentSystem.__init__ *)

NoBurst == [n |-> 0, vals |-> <<>>, fins |-> 0, reset |-> FALSE, last |-> 0]
NoFin ==
    [n |-> 0, value |-> 0, called |-> FALSE, edge |-> "none", raised |-> FALSE]
(* The request threads of the threaded server (app.run, line 736): each is
   idle or inside one handler, at the statement pc, with the handler's locals *)
Requests == {"r1", "r2"}
NoData ==
    [pages |-> NoValue, copies |-> 0, color_mode |-> "", page_range |-> NoRange,
     orientation |-> ""]
IdleRequest ==
    [op |-> "none", pc |-> "none", data |-> NoData, value |-> 0, total |-> 0,
     found |-> NoValue]
NoRequests == [r \in Requests |-> IdleRequest]

InitDecoder ==
    /\ pulse_count = 0
    /\ last_pulse_time = 0
    /\ timer = 0
    /\ fired = 0
    /\ dnow = DecStartTime
    /\ open = 0
    /\ burst = NoBurst
    /\ closed = NoBurst
    /\ fin = NoFin

Init ==
    /\ current_job = InitialJob
    /\ pt = NoThreads
    /\ resp = NoResponse
    /\ now = StartTime
    /\ initialized \in BOOLEAN
    /\ callback = initialized
    /\ InitDecoder
    /\ credited = 0
    /\ inserted = 0
    /\ rq = NoRequests

-----------------------------------------------------------------------------
(* The request handlers, each handled without interleaving *)

(* A reset that keeps the pulse count *)
Reset_keepcount ==
    /\ last_pulse_time' = 0
    /\ open' = 0
    /\ burst' = burst
    /\ fin' = NoFin
    /\ UNCHANGED <<pulse_count, timer, fired, dnow, closed>>

(* PaymentSystem.reset, lines 189-194 *)
Reset ==
    /\ pulse_count' = 0
    /\ last_pulse_time' = 0
    /\ open' = 0
    /\ burst' = IF pulse_count > 0 THEN [burst EXCEPT !.reset = TRUE] ELSE burst
    /\ fin' = NoFin
    /\ UNCHANGED <<timer, fired, dnow, closed>>

(* upload_file, lines 153-207 *)
Upload(file, ftype, pages) ==
    /\ current_job' = upload_file(file, ftype, pages)
    /\ Reset
    /\ credited' = 0
    /\ inserted' = 0
    /\ pt' = Replaced
    /\ resp' = Response("upload", TRUE, "", current_job', FALSE)
    /\ UNCHANGED <<now, hwVars, rq>>

(* app.config['ALLOWED_EXTENSIONS'], line 29 *)
ALLOWED_EXTENSIONS == {"pdf", "png", "jpg", "jpeg", "docx", "doc"}

(* str.lower on the extensions the requests carry *)
Lower(ext) == IF ext = "PDF" THEN "pdf" ELSE ext

(* allowed_file, lines 642-645; a filename is the sequence of its parts
   between the dots, the empty sequence for the empty name *)
allowed_file(filename) ==
    /\ Len(filename) > 1
    /\ Lower(filename[Len(filename)]) \in ALLOWED_EXTENSIONS

(* The upload requests: whether a 'file' part is present, its filename, and
   whether saving or processing the file raises (lines 158-168) *)
UploadRequests ==
    { [has_file |-> FALSE, filename |-> <<>>, raises |-> FALSE],
      [has_file |-> TRUE, filename |-> <<>>, raises |-> FALSE],
      [has_file |-> TRUE, filename |-> <<"doc">>, raises |-> FALSE],
      [has_file |-> TRUE, filename |-> <<"doc", "exe">>, raises |-> FALSE],
      [has_file |-> TRUE, filename |-> <<"doc", "PDF">>, raises |-> TRUE],
      [has_file |-> TRUE, filename |-> <<"doc", "pdf">>, raises |-> FALSE] }

(* upload_file, lines 140-168 and 209-214: the error of a request, "" when
   the file is accepted and processed *)
UploadError(u) ==
    IF ~u.has_file THEN "No file provided"
    ELSE IF u.filename = <<>> THEN "No file selected"
    ELSE IF ~allowed_file(u.filename) THEN "Invalid file type"
    ELSE IF u.raises THEN "Upload error"
    ELSE ""

(* A rejection that has already reset the decoder and cleared the payment *)
UploadRejected_reset(u) ==
    /\ UploadError(u) # ""
    /\ u.has_file /\ u.filename # <<>>
    /\ current_job' = [current_job EXCEPT !.paid = 0, !.pending_coin = NoValue]
    /\ Reset
    /\ resp' = Response("upload", FALSE, UploadError(u), current_job', FALSE)
    /\ UNCHANGED <<pt, now, credited, inserted, hwVars, rq>>

(* upload_file, lines 140-151 and 209-214: every return without a file
   accepted comes before line 178 *)
UploadRejected(u) ==
    /\ UploadError(u) # ""
    /\ resp' = Response("upload", FALSE, UploadError(u), current_job, FALSE)
    /\ UNCHANGED <<current_job, pt, now, credited, inserted, hwVars, decVars, rq>>

(* calculate_cost, lines 239-276 *)
CalculateCost(data) ==
    /\ current_job' = calculate_cost(current_job, data)
    /\ resp' = Response("calculate_cost", TRUE, "", current_job', FALSE)
    /\ UNCHANGED <<pt, now, credited, inserted, hwVars, decVars, rq>>

(* payment_status, lines 287-299 *)
PaymentStatus ==
    /\ resp' = Response("payment_status", TRUE, "", current_job,
                        CanPrintStatus(current_job))
    /\ UNCHANGED <<current_job, pt, now, credited, inserted, hwVars, decVars, rq>>

(* get_pending_coin, lines 306-318 *)
GetPendingCoin ==
    /\ current_job' = get_pending_coin(current_job, now)
    /\ resp' = [Response("pending_coin", TRUE, "", current_job', FALSE)
                   EXCEPT !.pending_coin =
                              IF PendingExpired(current_job, now)
                              THEN NoValue ELSE current_job.pending_coin,
                          !.has_pending =
                              ~PendingExpired(current_job, now)
                              /\ current_job.pending_coin # NoValue,
                          !.found = current_job.pending_coin]
    /\ UNCHANGED <<pt, now, credited, inserted, hwVars, decVars, rq>>

(* simulate_coin, lines 356-366 *)
SimulateCoin(value) ==
    /\ IF callback
       THEN /\ current_job' = coin_inserted_callback(current_job, value, now)
            /\ resp' = Response("simulate_coin", TRUE, "", current_job', FALSE)
       ELSE /\ current_job' = current_job
            /\ resp' = Response("simulate_coin", FALSE,
                                "Payment system not initialized",
                                current_job, FALSE)
    /\ UNCHANGED <<pt, now, credited, inserted, hwVars, decVars, rq>>

(* The decoder finalizes a coin of an accepted value and calls
   coin_inserted_callback, lines 610-640 *)
HardwareCoin(value) ==
    /\ initialized /\ callback
    /\ current_job' = coin_inserted_callback(current_job, value, now)
    /\ resp' = CallbackCalled(value, current_job.pending_coin)
    /\ UNCHANGED <<pt, now, credited, inserted, hwVars, decVars, rq>>

(* coin_inserted, lines 386-461 *)
CoinInserted(requested_value) ==
    LET error == CoinInsertedError(current_job, requested_value)
        job == coin_inserted(current_job, requested_value)
    IN  /\ job.paid <= MaxPaid
        /\ job.paid >= -MaxPaid
        /\ current_job' = job
        /\ credited' = IF error = ""
                       THEN credited + CoinValue(current_job, requested_value)
                       ELSE credited
        /\ inserted' = IF error = ""
                       THEN inserted + CoinValue(current_job, requested_value)
                       ELSE inserted
        /\ resp' = [Response("coin_inserted", error = "", error, job,
                             error = "" /\ CanPrintAfterCoin(job))
                       EXCEPT !.value = requested_value,
                              !.found = IF PaymentPrecondition(current_job) = ""
                                        THEN current_job.pending_coin
                                        ELSE NoValue]
        /\ UNCHANGED <<pt, now, hwVars, decVars, rq>>

(* start_print, lines 474-507 *)
StartPrint(slots) ==
    LET error == Authorize(current_job)
    IN  /\ error = "" => FreeThread(slots) # "none"
        /\ IF error = ""
           THEN /\ pt' = Started(FreeThread(slots), current_job)
                /\ current_job' = [current_job EXCEPT !.status = "printing"]
           ELSE UNCHANGED <<pt, current_job>>
        /\ resp' = Response("start_print", error = "", error, current_job', FALSE)
        /\ UNCHANGED <<now, credited, inserted, hwVars, decVars, rq>>

-----------------------------------------------------------------------------
(* print_job_thread, lines 547-608, one statement on the shared record at a time *)

(* A print thread that reads the shared record instead of its argument *)
PtBegin_shared(t) ==
    /\ pt[t].pc = "begin"
    /\ pt' = [pt EXCEPT ![t].pc = "print", ![t].total = TotalPages(current_job)]
    /\ current_job' = [current_job EXCEPT !.total_pages = TotalPages(current_job),
                                          !.current_page = 0]
    /\ resp' = NoResponse
    /\ UNCHANGED <<now, credited, inserted, hwVars, decVars, rq>>

(* lines 553-566 *)
PtBegin(t) ==
    /\ pt[t].pc = "begin"
    /\ pt' = [pt EXCEPT ![t].pc = "print", ![t].total = TotalPages(pt[t].job)]
    /\ current_job' = [current_job EXCEPT !.total_pages = TotalPages(pt[t].job),
                                          !.current_page = 0]
    /\ resp' = NoResponse
    /\ UNCHANGED <<now, credited, inserted, hwVars, decVars, rq>>

(* A print thread that resets the job as soon as the spooler reports success *)
PtSucceed_atonce(t) ==
    /\ pt[t].pc = "print"
    /\ pt' = Ended(t)
    /\ current_job' = [current_job EXCEPT !.status = "idle", !.paid = 0,
                                          !.current_page = pt[t].total]
    /\ credited' = 0
    /\ resp' = NoResponse
    /\ UNCHANGED <<now, inserted, hwVars, decVars, rq>>

(* lines 569-579: the spooler reports success *)
PtSucceed(t) ==
    /\ pt[t].pc = "print"
    /\ pt' = [pt EXCEPT ![t].pc = "sleep"]
    /\ current_job' = [current_job EXCEPT !.status = "completed",
                                          !.current_page = pt[t].total]
    /\ resp' = NoResponse
    /\ UNCHANGED <<now, credited, inserted, hwVars, decVars, rq>>

(* A print thread that refunds the payment when the spooler fails *)
PtFail_refund(t) ==
    /\ pt[t].pc = "print"
    /\ pt' = Ended(t)
    /\ current_job' = [current_job EXCEPT !.status = "error", !.paid = 0]
    /\ credited' = 0
    /\ resp' = NoResponse
    /\ UNCHANGED <<now, inserted, hwVars, decVars, rq>>

(* lines 569-577 and 591-602: the spooler reports failure *)
PtFail(t) ==
    /\ pt[t].pc = "print"
    /\ pt' = Ended(t)
    /\ current_job' = [current_job EXCEPT !.status = "error"]
    /\ resp' = NoResponse
    /\ UNCHANGED <<now, credited, inserted, hwVars, decVars, rq>>

(* A print thread that dies of an exception, with no handler for it *)
PtRaise_silent(t) ==
    /\ pt[t].pc \in {"begin", "print", "sleep"}
    /\ pt' = Ended(t)
    /\ resp' = NoResponse
    /\ UNCHANGED <<current_job, now, credited, inserted, hwVars, decVars, rq>>

(* lines 604-608: an exception inside the try block, raised before the
   print (lines 553-566), by it (569-575) or after it succeeded (582-588) *)
PtRaise(t) ==
    /\ pt[t].pc \in {"begin", "print", "sleep"}
    /\ pt' = Ended(t)
    /\ current_job' = [current_job EXCEPT !.status = "error"]
    /\ resp' = NoResponse
    /\ UNCHANGED <<now, credited, inserted, hwVars, decVars, rq>>

(* lines 588-589 *)
PtResetPaid(t) ==
    /\ pt[t].pc = "sleep"
    /\ pt' = [pt EXCEPT ![t].pc = "reset"]
    /\ current_job' = [current_job EXCEPT !.paid = 0]
    /\ credited' = 0
    /\ UNCHANGED inserted
    /\ resp' = NoResponse
    /\ UNCHANGED <<now, hwVars, decVars, rq>>

(* line 590 *)
PtIdle(t) ==
    /\ pt[t].pc = "reset"
    /\ pt' = Ended(t)
    /\ current_job' = [current_job EXCEPT !.status = "idle"]
    /\ resp' = NoResponse
    /\ UNCHANGED <<now, credited, inserted, hwVars, decVars, rq>>

(* The wall clock advances *)
Tick ==
    /\ now < MaxTime
    /\ now' = now + 1
    /\ resp' = NoResponse
    /\ UNCHANGED <<current_job, pt, credited, inserted, hwVars, decVars, rq>>

Next ==
    \/ \E f \in Files, ft \in FileTypes, p \in UploadPages : Upload(f, ft, p)
    \/ \E d \in CostRequests : CalculateCost(d)
    \/ PaymentStatus
    \/ GetPendingCoin
    \/ \E v \in SimulatedCoins : SimulateCoin(v)
    \/ \E v \in HardwareCoins : HardwareCoin(v)
    \/ \E v \in ConfirmValues : CoinInserted(v)
    \/ StartPrint(OneThread)
    \/ \E t \in Threads : PtBegin(t)
    \/ \E t \in Threads : PtSucceed(t)
    \/ \E t \in Threads : PtFail(t)
    \/ \E t \in Threads : PtRaise(t)
    \/ \E t \in Threads : PtResetPaid(t)
    \/ \E t \in Threads : PtIdle(t)
    \/ Tick

Spec == Init /\ [][Next]_vars

-----------------------------------------------------------------------------
(* payment_system.py: the edge handler and the deadline timer.  Both run
   under PaymentSystem._lock, so each is one step.  A Timer whose wait has
   ended is no longer stopped by cancel(): it calls _process_coin as soon as
   it gets the lock. *)

(* _process_coin_now, lines 143-146: the callback is invoked for n pulses *)
CallbackInvoked(n) ==
    n > 0 /\ determine_coin_value(n) > 0 /\ callback

(* _process_coin_now, lines 137-161: the job record after n pulses are finalized *)
process_coin_now(job, n) ==
    IF CallbackInvoked(n)
    THEN coin_inserted_callback(job, determine_coin_value(n), now)
    ELSE job

(* history: the burst after its n > 0 counted pulses are finalized *)
Finalized(b, n) ==
    [b EXCEPT !.fins = @ + 1,
              !.vals = IF CallbackInvoked(n)
                       THEN Append(@, determine_coin_value(n)) ELSE @]

FinOf(n) ==
    [n |-> n, value |-> determine_coin_value(n), called |-> CallbackInvoked(n),
     edge |-> "none", raised |-> FALSE]

(* A new sequence as soon as the timeout is reached *)
NewSequence_inclusive == (dnow - last_pulse_time) >= PulseTimeout

(* _coin_pulse_callback, line 104 *)
NewSequence == (dnow - last_pulse_time) > PulseTimeout

(* An edge handler that cancels the deadline timer and arms none *)
Edge_noarm(gap) ==
    LET finalize == NewSequence /\ pulse_count > 0
        newBurst == burst.n = 0 \/ (dnow - burst.last) > PulseTimeout
        old == IF finalize THEN Finalized(burst, pulse_count) ELSE burst
    IN  /\ initialized
        /\ gap = "bounce" => dnow = last_pulse_time
        /\ pulse_count < MaxPulses
        /\ ~newBurst => burst.n < MaxPulses
        /\ pulse_count' = IF NewSequence THEN 1 ELSE pulse_count + 1
        /\ current_job' = IF finalize
                          THEN process_coin_now(current_job, pulse_count)
                          ELSE current_job
        /\ last_pulse_time' = dnow
        /\ timer' = 0
        /\ open' = (IF finalize THEN 0 ELSE open) + 1
        /\ fin' = [(IF finalize THEN FinOf(pulse_count) ELSE NoFin)
                      EXCEPT !.edge = gap]
        /\ burst' = IF newBurst
                    THEN [n |-> 1, vals |-> <<>>, fins |-> 0, reset |-> FALSE,
                          last |-> dnow]
                    ELSE [old EXCEPT !.n = @ + 1, !.last = dnow]
        /\ closed' = IF newBurst THEN old ELSE closed
        /\ resp' = NoResponse
        /\ UNCHANGED <<pt, now, credited, inserted, hwVars, fired, dnow, rq>>

(* How long after the previous edge an edge is handled: less than 10 ms
   (only when the clock reads the same as at the previous edge) or more *)
Gaps == {"bounce", "pulse"}

(* _coin_pulse_callback, lines 95-127 *)
Edge(gap) ==
    LET finalize == NewSequence /\ pulse_count > 0
        newBurst == burst.n = 0 \/ (dnow - burst.last) > PulseTimeout
        old == IF finalize THEN Finalized(burst, pulse_count) ELSE burst
    IN  /\ initialized
        /\ gap = "bounce" => dnow = last_pulse_time
        /\ pulse_count < MaxPulses
        /\ ~newBurst => burst.n < MaxPulses
        /\ pulse_count' = IF NewSequence THEN 1 ELSE pulse_count + 1
        /\ current_job' = IF finalize
                          THEN process_coin_now(current_job, pulse_count)
                          ELSE current_job
        /\ last_pulse_time' = dnow
        /\ timer' = dnow + PulseTimeout
        /\ open' = (IF finalize THEN 0 ELSE open) + 1
        /\ fin' = [(IF finalize THEN FinOf(pulse_count) ELSE NoFin)
                      EXCEPT !.edge = gap]
        /\ burst' = IF newBurst
                    THEN [n |-> 1, vals |-> <<>>, fins |-> 0, reset |-> FALSE,
                          last |-> dnow]
                    ELSE [old EXCEPT !.n = @ + 1, !.last = dnow]
        /\ closed' = IF newBurst THEN old ELSE closed
        /\ resp' = NoResponse
        /\ UNCHANGED <<pt, now, credited, inserted, hwVars, fired, dnow, rq>>

(* threading.Timer.run: the wait of the armed Timer ends.  The Timer is
   started after the edge handler read the clock (line 97, then line 124),
   so its wait ends later than last_pulse_time + pulse_timeout. *)
TimerExpire ==
    /\ timer # 0
    /\ dnow > timer
    /\ fired < MaxFired
    /\ fired' = fired + 1
    /\ timer' = 0
    /\ fin' = NoFin
    /\ resp' = NoResponse
    /\ UNCHANGED <<current_job, pt, now, credited, inserted, hwVars, pulse_count,
                   last_pulse_time, dnow, open, burst, closed, rq>>

(* _process_coin, lines 129-132 *)
TimerCallback ==
    /\ fired > 0
    /\ fired' = fired - 1
    /\ pulse_count' = 0
    /\ current_job' = process_coin_now(current_job, pulse_count)
    /\ open' = IF pulse_count > 0 THEN 0 ELSE open
    /\ fin' = IF pulse_count > 0 THEN FinOf(pulse_count) ELSE NoFin
    /\ burst' = IF pulse_count > 0 THEN Finalized(burst, pulse_count) ELSE burst
    /\ resp' = NoResponse
    /\ UNCHANGED <<pt, now, credited, inserted, hwVars, last_pulse_time, timer, dnow,
                   closed, rq>>

(* The decoder's clock advances *)
DecTick ==
    /\ dnow < MaxDecTime
    /\ dnow' = dnow + 1
    /\ fin' = NoFin
    /\ resp' = NoResponse
    /\ UNCHANGED <<current_job, pt, now, credited, inserted, hwVars, pulse_count,
                   last_pulse_time, timer, fired, open, burst, closed, rq>>

InitDec == Init /\ initialized

NextDec ==
    \/ \E gap \in Gaps : Edge(gap)
    \/ TimerExpire
    \/ TimerCallback
    \/ DecTick
    \/ \E f \in Files, ft \in FileTypes, p \in UploadPages : Upload(f, ft, p)

SpecDec == InitDec /\ [][NextDec]_vars

-----------------------------------------------------------------------------
(* The decoder's claims *)

(* A burst is over: the timeout has passed since its last edge, and nothing
   of it is left to finalize *)
BurstOver ==
    /\ burst.n > 0
    /\ (dnow - burst.last) > PulseTimeout
    /\ pulse_count = 0
    /\ timer = 0
    /\ fired = 0

DecodedOnce(b) ==
    (b.n \in COIN_VALUES /\ ~b.reset) => b.vals = <<b.n>>

(* C5: a burst of exactly N edges, N in {1, 5, 10, 20}, each within
   pulse_timeout of the one before, makes the decoder call the coin callback
   exactly once for the burst, with the value N. *)
C5_BurstDecodedOnce ==
    /\ DecodedOnce(closed)
    /\ BurstOver => DecodedOnce(burst)

(* C6: a finalization of a pulse count that is no accepted coin value does
   not call the coin callback, creates no pending coin and leaves paid as it
   was. *)
C6_UnknownCountEmitsNothing ==
    [][(fin'.n > 0 /\ fin'.n \notin COIN_VALUES)
          => /\ ~fin'.called
             /\ current_job'.pending_coin = current_job.pending_coin
             /\ current_job'.pending_coin_time = current_job.pending_coin_time
             /\ current_job'.paid = current_job.paid]_vars

C6_Witness ==
    /\ fin.n = 2
    /\ ~fin.called
    /\ current_job.pending_coin = NoValue

(* C7: under every interleaving of the edge handler and the timer callback
   each pulse sequence is finalized exactly once, by an edge after the
   timeout or by the deadline timer, and never twice. *)
C7_SequenceFinalizedOnce ==
    /\ burst.fins <= 1
    /\ closed.fins <= 1
    /\ (closed.n > 0 /\ ~closed.reset) => closed.fins = 1
    /\ (BurstOver /\ ~burst.reset) => burst.fins = 1

-----------------------------------------------------------------------------
(* The authorization as a function of the job record: every combination of
   paid, cost, status and file, then start_print *)

AuthPaid == {0, 5, 10}
AuthCost == {-5, 0, 5, 10}
JobStatus == {"idle", "uploaded", "printing", "completed", "error"}

InitAuth ==
    /\ \E p \in AuthPaid, c \in AuthCost, st \in JobStatus, f \in Files \cup {None} :
           current_job = [InitialJob EXCEPT !.paid = p, !.cost = c,
                                            !.status = st, !.file_path = f]
    /\ pt = NoThreads
    /\ resp = NoResponse
    /\ now = StartTime
    /\ initialized = FALSE
    /\ callback = FALSE
    /\ InitDecoder
    /\ credited = current_job.paid
    /\ inserted = current_job.paid
    /\ rq = NoRequests

NextAuth == StartPrint(OneThread)

SpecAuth == InitAuth /\ [][NextAuth]_vars

(* start_print, lines 474-488, as the claims state it *)
MayPrint(job) ==
    /\ job.paid >= job.cost
    /\ job.cost > 0
    /\ job.status = "uploaded"
    /\ job.file_path # None

-----------------------------------------------------------------------------
(* The claims on the request handlers *)

(* C2: for every combination of paid, cost, status and file, the print
   authorization succeeds if and only if paid >= cost, cost > 0, the status
   is uploaded and a file path is present. *)
C2_AuthorizeIff ==
    [][resp'.op = "start_print"
          => (resp'.ok <=> MayPrint(current_job))
             /\ (resp'.ok <=> pt' # pt)]_vars

C2_Witness ==
    /\ resp.op = "start_print"
    /\ resp.ok
    /\ pt["t1"].pc = "begin"
    /\ current_job.status = "printing"

(* C3: right after a pending coin of value v was confirmed, a second
   confirmation of v is rejected for want of a pending coin and paid is not
   increased again. *)
C3_DuplicateConfirmRejected ==
    [][(/\ resp.op = "coin_inserted" /\ resp.ok /\ Truthy(resp.found)
        /\ resp'.op = "coin_inserted" /\ resp'.value = resp.found[1])
          => /\ ~resp'.ok
             /\ resp'.error = "Invalid coin value"
             /\ current_job'.paid = current_job.paid]_vars

(* C4: the coin callback only sets the pending coin; paid is the sum of the
   values credited by successful confirmations since paid was last reset by
   an upload or a completed print. *)
C4_PaidIsConfirmed ==
    current_job.paid = credited

C4_Witness ==
    /\ Truthy(current_job.pending_coin)
    /\ current_job.paid = 5
    /\ credited = 5

(* C8: with a pending coin p and the job accepting payment, a confirmation
   stating another value is rejected as a mismatch, paid is unchanged and p
   is still pending. *)
C8_MismatchKeepsPending ==
    [][(/\ resp'.op = "coin_inserted"
        /\ current_job.file_path # None /\ current_job.cost > 0
        /\ current_job.status = "uploaded"
        /\ Truthy(current_job.pending_coin)
        /\ resp'.value # current_job.pending_coin[1])
          => /\ ~resp'.ok
             /\ resp'.error = "Please confirm the detected coin value"
             /\ current_job'.paid = current_job.paid
             /\ current_job'.pending_coin = current_job.pending_coin
             /\ current_job'.pending_coin_time = current_job.pending_coin_time]_vars

C8_Witness ==
    /\ resp.op = "coin_inserted"
    /\ resp.error = "Please confirm the detected coin value"
    /\ resp.value = 5
    /\ current_job.pending_coin = Some(10)

(* C9: a confirmation arriving more than 30 s after the detection finds no
   pending coin, whether or not get_pending_coin was polled: the detected
   coin is not credited, and a confirmation stating no value fails with the
   invalid-value error. *)
C9_ExpiredCoinNotConfirmed ==
    [][(/\ resp'.op = "coin_inserted"
        /\ current_job.file_path # None /\ current_job.cost > 0
        /\ current_job.status = "uploaded"
        /\ Truthy(current_job.pending_coin)
        /\ (now - current_job.pending_coin_time) > PendingExpiry)
          => /\ ~Truthy(resp'.found)
             /\ resp'.value <= 0
                    => (~resp'.ok /\ resp'.error = "Invalid coin value")]_vars

PreconditionErrors ==
    { "Please upload a file first", "Cost not calculated. Please wait.",
      "Cannot accept coins at this time" }

(* C10: a confirmation is rejected before any coin logic when no file is
   uploaded, or cost <= 0, or the status is not uploaded; paid and the
   pending coin are then unchanged. *)
C10_PreconditionRejects ==
    [][(/\ resp'.op = "coin_inserted"
        /\ \/ current_job.file_path = None
           \/ current_job.cost <= 0
           \/ current_job.status # "uploaded")
          => /\ ~resp'.ok
             /\ resp'.error \in PreconditionErrors
             /\ current_job' = current_job]_vars

C10_Witness ==
    /\ resp.op = "coin_inserted"
    /\ resp.error = "Cannot accept coins at this time"
    /\ current_job.status = "printing"
    /\ Truthy(current_job.pending_coin)

-----------------------------------------------------------------------------
(* The handlers as the threaded server runs them (app.run, line 736,
   threaded=True): no lock guards current_job, so the statements of two
   requests and of the print thread interleave.  One step is one statement
   that reads or writes current_job. *)

ConcCostRequests ==
    { [pages |-> NoValue, copies |-> c, color_mode |-> "grayscale",
       page_range |-> NoRange, orientation |-> "portrait"] : c \in {1, 2} }
ConcCoins == {10}

(* The requests in flight: one start_print and one other request at a time *)
Handlers(r) ==
    IF r = "r1" THEN {"start_print"}
    ELSE {"upload", "calculate_cost", "coin_inserted"}

Idle(r, op) == rq[r].op = "none" /\ op \in Handlers(r)
At(r, op, pc) == rq[r].op = op /\ rq[r].pc = pc
Enter(r, op, data, value, pc) ==
    rq' = [rq EXCEPT ![r] = [IdleRequest EXCEPT !.op = op, !.pc = pc,
                                                !.data = data, !.value = value]]
Goto(r, pc) == rq' = [rq EXCEPT ![r].pc = pc]
Return(r) == rq' = [rq EXCEPT ![r] = IdleRequest]
Reply(r, op, error) ==
    /\ Return(r)
    /\ resp' = [Response(op, error = "", error, current_job', FALSE)
                    EXCEPT !.value = rq[r].value, !.found = rq[r].found]
Running == UNCHANGED <<now, hwVars, decVars>>

(* upload_file, lines 178-193: a request thread replaces the job record *)
UpReplace(r, file, ftype, pages) ==
    /\ Idle(r, "upload")
    /\ current_job' = upload_file(file, ftype, pages)
    /\ credited' = 0
    /\ inserted' = 0
    /\ pt' = Replaced
    /\ Enter(r, "upload", NoData, 0, "reset")
    /\ resp' = NoResponse
    /\ UNCHANGED <<now, hwVars, decVars>>

(* upload_file, lines 196-214: the decoder is reset and the upload answered *)
UpReset(r) ==
    /\ At(r, "upload", "reset")
    /\ UNCHANGED <<current_job, pt, now, credited, inserted, hwVars>>
    /\ Reset
    /\ Reply(r, "upload", "")

(* calculate_cost, lines 239-257: pages is read, the cost is computed *)
CcCompute(r, data) ==
    /\ Idle(r, "calculate_cost")
    /\ rq' = [rq EXCEPT ![r] = [IdleRequest EXCEPT
                  !.op = "calculate_cost", !.pc = "copies", !.data = data,
                  !.total = TotalCost(current_job, data)]]
    /\ resp' = NoResponse
    /\ UNCHANGED <<current_job, pt, credited, inserted>>
    /\ Running

(* calculate_cost, lines 259-262: the options are written one by one *)
CcWriteOption(r) ==
    /\ rq[r].op = "calculate_cost"
    /\ \/ /\ rq[r].pc = "copies"
          /\ current_job' = [current_job EXCEPT !.copies = rq[r].data.copies]
          /\ Goto(r, "page_range")
       \/ /\ rq[r].pc = "page_range"
          /\ current_job' = [current_job EXCEPT !.page_range = rq[r].data.page_range]
          /\ Goto(r, "orientation")
       \/ /\ rq[r].pc = "orientation"
          /\ current_job' = [current_job EXCEPT !.orientation = rq[r].data.orientation]
          /\ Goto(r, "color_mode")
       \/ /\ rq[r].pc = "color_mode"
          /\ current_job' = [current_job EXCEPT !.color_mode = rq[r].data.color_mode]
          /\ Goto(r, "cost")
    /\ resp' = NoResponse
    /\ UNCHANGED <<pt, credited, inserted>>
    /\ Running

(* calculate_cost, lines 263-276: the cost is written and the request answered *)
CcWriteCost(r) ==
    /\ At(r, "calculate_cost", "cost")
    /\ current_job' = [current_job EXCEPT !.cost = rq[r].total]
    /\ Reply(r, "calculate_cost", "")
    /\ UNCHANGED <<pt, credited, inserted>>
    /\ Running

(* coin_inserted, lines 386-389: a request thread checks the file *)
CiFile(r, value) ==
    /\ rq[r].op = "none"
    /\ UNCHANGED <<current_job, pt, credited, inserted>>
    /\ IF current_job.file_path = None
       THEN /\ resp' = [Response("coin_inserted", FALSE,
                                 "Please upload a file first", current_job, FALSE)
                            EXCEPT !.value = value]
            /\ UNCHANGED rq
       ELSE /\ Enter(r, "coin_inserted", NoData, value, "cost")
            /\ resp' = NoResponse
    /\ Running

CiEnter(r, value) ==
    /\ "coin_inserted" \in Handlers(r)
    /\ CiFile(r, value)

(* coin_inserted, lines 391-399: the cost and the status, one read each *)
CiCheck(r) ==
    /\ rq[r].op = "coin_inserted"
    /\ UNCHANGED <<current_job, pt, credited, inserted>>
    /\ \/ /\ rq[r].pc = "cost"
          /\ IF current_job.cost <= 0
             THEN Reply(r, "coin_inserted", "Cost not calculated. Please wait.")
             ELSE Goto(r, "status") /\ resp' = NoResponse
       \/ /\ rq[r].pc = "status"
          /\ IF current_job.status # "uploaded"
             THEN Reply(r, "coin_inserted", "Cannot accept coins at this time")
             ELSE Goto(r, "pending") /\ resp' = NoResponse
    /\ Running

(* coin_inserted, lines 409-429: the pending coin is read and compared *)
CiReadPending(r) ==
    /\ At(r, "coin_inserted", "pending")
    /\ UNCHANGED <<current_job, pt, credited, inserted>>
    /\ LET error == CoinError(current_job, rq[r].value)
       IN  IF error # ""
           THEN Reply(r, "coin_inserted", error)
           ELSE /\ rq' = [rq EXCEPT ![r].found = current_job.pending_coin,
                                    ![r].total = CoinValue(current_job, rq[r].value),
                                    ![r].pc = IF Truthy(current_job.pending_coin)
                                              THEN "clear" ELSE "add"]
                /\ resp' = NoResponse
    /\ Running

(* coin_inserted, line 417 *)
CiClearPending(r) ==
    /\ At(r, "coin_inserted", "clear")
    /\ current_job' = [current_job EXCEPT !.pending_coin = NoValue]
    /\ Goto(r, "add")
    /\ resp' = NoResponse
    /\ UNCHANGED <<pt, credited, inserted>>
    /\ Running

(* coin_inserted, lines 440-462: paid += coin_value, then the answer *)
CiAdd(r) ==
    /\ At(r, "coin_inserted", "add")
    /\ current_job.paid <= MaxPaid
    /\ current_job' = [current_job EXCEPT !.paid = @ + rq[r].total]
    /\ credited' = credited + rq[r].total
    /\ inserted' = inserted + rq[r].total
    /\ Return(r)
    /\ resp' = [Response("coin_inserted", TRUE, "", current_job',
                         CanPrintAfterCoin(current_job'))
                    EXCEPT !.value = rq[r].value, !.found = rq[r].found]
    /\ UNCHANGED pt
    /\ Running

(* start_print, lines 474-475: a request thread checks the cost *)
SpCost(r) ==
    /\ rq[r].op = "none"
    /\ UNCHANGED <<current_job, pt, credited, inserted>>
    /\ IF current_job.cost <= 0
       THEN /\ resp' = Response("start_print", FALSE, "Cost not calculated",
                                current_job, FALSE)
            /\ UNCHANGED rq
       ELSE /\ Enter(r, "start_print", NoData, 0, "paid")
            /\ resp' = NoResponse
    /\ Running

SpEnter(r) ==
    /\ "start_print" \in Handlers(r)
    /\ SpCost(r)

(* start_print, lines 478-488: the other checks, one statement each *)
SpCheck(r) ==
    /\ rq[r].op = "start_print"
    /\ UNCHANGED <<current_job, pt, credited, inserted>>
    /\ \/ /\ rq[r].pc = "paid"
          /\ IF current_job.paid < current_job.cost
             THEN Reply(r, "start_print", "Insufficient payment")
             ELSE Goto(r, "status") /\ resp' = NoResponse
       \/ /\ rq[r].pc = "status"
          /\ IF current_job.status # "uploaded"
             THEN Reply(r, "start_print", "No file ready for printing")
             ELSE Goto(r, "file") /\ resp' = NoResponse
       \/ /\ rq[r].pc = "file"
          /\ IF current_job.file_path = None
             THEN Reply(r, "start_print", "No file uploaded")
             ELSE Goto(r, "dispatch") /\ resp' = NoResponse
    /\ Running

(* start_print, lines 491-493: the print thread is started on a copy of the job *)
SpDispatch(r) ==
    /\ At(r, "start_print", "dispatch")
    /\ pt["t1"].pc = "none"
    /\ pt' = Started("t1", current_job)
    /\ Goto(r, "printing")
    /\ resp' = NoResponse
    /\ UNCHANGED <<current_job, credited, inserted>>
    /\ Running

(* start_print, lines 491-493, when another print thread may be alive *)
SpDispatchAny(r) ==
    /\ At(r, "start_print", "dispatch")
    /\ FreeThread(Threads) # "none"
    /\ pt' = Started(FreeThread(Threads), current_job)
    /\ Goto(r, "printing")
    /\ resp' = NoResponse
    /\ UNCHANGED <<current_job, credited, inserted>>
    /\ Running

(* start_print, lines 495-507 *)
SpSetStatus(r) ==
    /\ At(r, "start_print", "printing")
    /\ current_job' = [current_job EXCEPT !.status = "printing"]
    /\ Reply(r, "start_print", "")
    /\ UNCHANGED <<pt, credited, inserted>>
    /\ Running

NextConc ==
    \/ \E r \in Requests :
          \/ \E f \in Files, p \in UploadPages : UpReplace(r, f, "document", p)
          \/ UpReset(r)
          \/ \E d \in ConcCostRequests : CcCompute(r, d)
          \/ CcWriteOption(r)
          \/ CcWriteCost(r)
          \/ \E v \in ConcCoins : CiEnter(r, v)
          \/ CiCheck(r)
          \/ CiReadPending(r)
          \/ CiClearPending(r)
          \/ CiAdd(r)
          \/ SpEnter(r)
          \/ SpCheck(r)
          \/ SpDispatch(r)
          \/ SpSetStatus(r)
    \/ \E v \in ConcCoins : HardwareCoin(v)
    \/ \E t \in Threads : PtBegin(t)
    \/ \E t \in Threads : PtSucceed(t)
    \/ \E t \in Threads : PtFail(t)
    \/ \E t \in Threads : PtRaise(t)
    \/ \E t \in Threads : PtResetPaid(t)
    \/ \E t \in Threads : PtIdle(t)

InitConc == Init /\ initialized

SpecConc == InitConc /\ [][NextConc]_vars

(* C1: under every interleaving of the request handlers and the print
   thread, the job copied for a print that is dispatched has status
   uploaded, cost > 0 and paid >= cost. *)
C1_DispatchOnlyWhenPaid ==
    \A t \in Threads : pt[t].pc = "begin" => MayPrint(pt[t].job)

(* C11: a successful confirmation increases paid by exactly the confirmed
   value (the pending value when there is one, otherwise the positive value
   of the request), leaves no pending coin, and answers with the new paid,
   the unchanged cost, remaining = max(0, cost - paid) and can_print. *)
C11_ConfirmCredits ==
    [][(resp'.op = "coin_inserted" /\ resp'.ok)
          => LET pending == current_job.pending_coin
                 value == IF Truthy(pending) THEN pending[1] ELSE resp'.value
                 due == current_job.cost - current_job'.paid
             IN  /\ (~Truthy(pending) => resp'.value > 0)
                 /\ current_job'.paid = current_job.paid + value
                 /\ ~Truthy(current_job'.pending_coin)
                 /\ current_job'.cost = current_job.cost
                 /\ resp'.paid = current_job'.paid
                 /\ resp'.cost = current_job.cost
                 /\ resp'.remaining = (IF due > 0 THEN due ELSE 0)
                 /\ resp'.can_print = (/\ current_job'.paid >= current_job.cost
                                       /\ current_job.cost > 0
                                       /\ current_job'.status = "uploaded")]_vars

C11_Witness ==
    /\ resp.op = "coin_inserted"
    /\ resp.ok
    /\ resp.found = Some(5)
    /\ resp.paid = 5
    /\ resp.remaining = 5
    /\ ~resp.can_print
    /\ current_job.pending_coin = NoValue

(* C12: with the job uploaded and cost > 0, no pending coin and a requested
   value <= 0, the confirmation fails with the invalid-value error and paid
   is unchanged. *)
C12_InvalidValueRejected ==
    [][(/\ resp'.op = "coin_inserted"
        /\ current_job.file_path # None /\ current_job.cost > 0
        /\ current_job.status = "uploaded"
        /\ ~Truthy(current_job.pending_coin)
        /\ resp'.value <= 0)
          => /\ ~resp'.ok
             /\ resp'.error = "Invalid coin value"
             /\ current_job'.paid = current_job.paid]_vars

C12_Witness ==
    /\ resp.op = "coin_inserted"
    /\ resp.error = "Invalid coin value"
    /\ resp.value = 0
    /\ current_job.status = "uploaded"
    /\ current_job.cost > 0

-----------------------------------------------------------------------------
(* upload_file as a function of the state it finds: every status, paid, cost,
   pending coin and pulse count, then an upload *)

InitUp ==
    /\ \E p \in AuthPaid, c \in AuthCost, st \in JobStatus, f \in Files \cup {None},
          pc \in {NoValue} \cup {Some(v) : v \in HardwareCoins} :
           current_job = [InitialJob EXCEPT !.paid = p, !.cost = c, !.status = st,
                                            !.file_path = f, !.pending_coin = pc,
                                            !.pending_coin_time =
                                                IF pc = NoValue THEN 0 ELSE StartTime]
    /\ pt = NoThreads
    /\ resp = NoResponse
    /\ now = StartTime
    /\ initialized = TRUE
    /\ callback = TRUE
    /\ pulse_count \in 0..MaxPulses
    /\ last_pulse_time = (IF pulse_count = 0 THEN 0 ELSE DecStartTime)
    /\ timer = (IF pulse_count = 0 THEN 0 ELSE DecStartTime + PulseTimeout)
    /\ fired = 0
    /\ dnow = DecStartTime
    /\ open = pulse_count
    /\ burst = [NoBurst EXCEPT !.n = pulse_count, !.last = last_pulse_time]
    /\ closed = NoBurst
    /\ fin = NoFin
    /\ credited = current_job.paid
    /\ inserted = current_job.paid
    /\ rq = NoRequests

NextUp == \E f \in Files, ft \in FileTypes, p \in UploadPages : Upload(f, ft, p)

SpecUp == InitUp /\ [][NextUp]_vars

(* C13: a successful upload, from any status and any paid, cost and pending
   coin, leaves status uploaded, paid 0, cost 0, no pending coin and the
   decoder's pulse count 0. *)
C13_UploadResets ==
    [][(resp'.op = "upload" /\ resp'.ok)
          => /\ current_job'.status = "uploaded"
             /\ current_job'.paid = 0
             /\ current_job'.cost = 0
             /\ current_job'.pending_coin = NoValue
             /\ pulse_count' = 0]_vars

C13_Witness ==
    /\ resp.op = "upload"
    /\ resp.ok
    /\ burst.n = 5
    /\ burst.reset
    /\ pulse_count = 0
    /\ current_job.status = "uploaded"
    /\ current_job.paid = 0

-----------------------------------------------------------------------------
(* calculate_cost as a function of the uploaded job and of the request: the
   request states pages or not, copies, the colour mode and the page range *)

CostPages == {1, 2, 3}
CostCopies == {1, 2}
PageRanges ==
    {NoRange, AllPages} \cup { Range(a, b) : a \in CostPages, b \in CostPages }
RequestedPages == {NoValue, Some(1)}

AnyCostRequests ==
    { [pages |-> pg, copies |-> c, color_mode |-> cm, page_range |-> pr,
       orientation |-> "portrait"] :
          pg \in RequestedPages, c \in CostCopies,
          cm \in {"grayscale", "color"}, pr \in PageRanges }

InitCost ==
    /\ \E f \in Files, p \in CostPages : current_job = upload_file(f, "document", p)
    /\ pt = NoThreads
    /\ resp = NoResponse
    /\ now = StartTime
    /\ initialized = FALSE
    /\ callback = FALSE
    /\ InitDecoder
    /\ credited = 0
    /\ inserted = 0
    /\ rq = NoRequests

NextCost == \E d \in AnyCostRequests : CalculateCost(d)

SpecCost == InitCost /\ [][NextCost]_vars

(* C14: calculate_cost sets cost = copies * P * price per page, where P is
   the uploaded job's page count when the page range is all and
   end - start + 1 otherwise, and the price is the colour price for colour
   and the black-and-white price otherwise. *)
C14_CostFormula ==
    [][resp'.op = "calculate_cost"
          => LET job == current_job'
                 P == IF job.page_range.kind = "range"
                      THEN job.page_range.end - job.page_range.start + 1
                      ELSE current_job.pages
                 price == IF job.color_mode = "color"
                          THEN PRICE_PER_PAGE_COLOR ELSE PRICE_PER_PAGE_BW
             IN  job.cost = job.copies * P * price]_vars

(* C15: after an upload and a calculate_cost giving cost c > 0, successful
   confirmations of denominations that sum exactly to c end with paid = c,
   remaining = 0 and can_print true, and can_print is false after every
   proper prefix. *)
C15_ExactPaymentCanPrint ==
    (/\ resp.op = "coin_inserted" /\ resp.ok
     /\ resp.cost > 0 /\ resp.value \in COIN_VALUES)
        => /\ inserted = resp.cost
               => (resp.paid = resp.cost /\ resp.remaining = 0 /\ resp.can_print)
           /\ inserted < resp.cost => ~resp.can_print

(* The checks of start_print in the order the claims give them, and the
   reason each one reports *)
AuthChecks(job) ==
    << job.cost > 0, job.paid >= job.cost, job.status = "uploaded",
       job.file_path # None >>
AuthReasons ==
    << "Cost not calculated", "Insufficient payment",
       "No file ready for printing", "No file uploaded" >>
FirstFailing(checks) ==
    IF \A i \in DOMAIN checks : checks[i] THEN 0
    ELSE CHOOSE i \in DOMAIN checks :
             ~checks[i] /\ \A j \in DOMAIN checks : j < i => checks[j]

(* C16: the authorization checks are evaluated in the order cost > 0,
   paid >= cost, status = uploaded, file present; the reason reported is
   that of the first failing check; a rejected request leaves the job
   unchanged and dispatches no print. *)
C16_FirstFailingCheck ==
    [][resp'.op = "start_print"
          => LET k == FirstFailing(AuthChecks(current_job))
             IN  /\ resp'.ok <=> k = 0
                 /\ k # 0 => /\ resp'.error = AuthReasons[k]
                             /\ current_job' = current_job
                             /\ pt' = pt]_vars

C16_Witness ==
    /\ resp.op = "start_print"
    /\ resp.error = "Insufficient payment"
    /\ current_job.status = "idle"
    /\ current_job.file_path = None
    /\ current_job.paid < current_job.cost
    /\ pt = NoThreads

-----------------------------------------------------------------------------
(* The ledger under requests of any sign: a page range that ends before it
   starts, and the simulated detection of a coin of negative value
   (simulate_coin, line 357, takes any float) *)

LedgerCostRequests ==
    { [pages |-> NoValue, copies |-> 1, color_mode |-> "grayscale",
       page_range |-> pr, orientation |-> "portrait"] :
          pr \in {NoRange, Range(3, 1)} }
SignedCoins == {-5, 5}

InitLedger == Init /\ initialized

NextLedger ==
    \/ \E f \in Files, p \in UploadPages : Upload(f, "document", p)
    \/ \E d \in LedgerCostRequests : CalculateCost(d)
    \/ \E v \in SignedCoins : SimulateCoin(v)
    \/ \E v \in SignedCoins : CoinInserted(v)
    \/ StartPrint(OneThread)
    \/ \E t \in Threads : PtBegin(t)
    \/ \E t \in Threads : PtSucceed(t)
    \/ \E t \in Threads : PtFail(t)
    \/ \E t \in Threads : PtRaise(t)
    \/ \E t \in Threads : PtResetPaid(t)
    \/ \E t \in Threads : PtIdle(t)

SpecLedger == InitLedger /\ [][NextLedger]_vars

(* C17: in every reachable state paid >= 0 and cost >= 0, whatever copies
   and page range calculate_cost is asked for and whatever coins are
   detected and confirmed. *)
C17_LedgerNonNegative ==
    current_job.paid >= 0 /\ current_job.cost >= 0

(* The lifecycle of the job status *)
Lifecycle ==
    { <<"idle", "uploaded">>, <<"uploaded", "printing">>,
      <<"printing", "completed">>, <<"printing", "error">>,
      <<"completed", "idle">>, <<"error", "idle">> }

(* C18: every change of the status follows idle -> uploaded -> printing ->
   {completed, error} -> idle, or is made by an upload, which sets uploaded
   from any status. *)
C18_StatusLifecycle ==
    [][current_job'.status # current_job.status
          => \/ <<current_job.status, current_job'.status>> \in Lifecycle
             \/ resp'.op = "upload" /\ current_job'.status = "uploaded"]_vars

-----------------------------------------------------------------------------
(* Two prints alive at once: an upload falls into a print, the new job is
   paid and its print started while the thread of the old one still runs *)

TwoCostRequests == { d \in CostRequests : d.page_range = NoRange }
TwoCoins == {10}

NextTwo ==
    \/ \E f \in Files, p \in UploadPages : Upload(f, "document", p)
    \/ \E d \in TwoCostRequests : CalculateCost(d)
    \/ \E v \in TwoCoins : CoinInserted(v)
    \/ StartPrint(Threads)
    \/ \E t \in Threads : PtBegin(t)
    \/ \E t \in Threads : PtSucceed(t)
    \/ \E t \in Threads : PtFail(t)
    \/ \E t \in Threads : PtRaise(t)
    \/ \E t \in Threads : PtResetPaid(t)
    \/ \E t \in Threads : PtIdle(t)

SpecTwo == Init /\ [][NextTwo]_vars

(* C19: when the spooler reports success and no upload has fallen into a
   print, status becomes completed first, with paid untouched; only
   afterwards is paid reset to 0, and only then does status become idle; the
   status never becomes idle before the print has set completed. *)
C19_CompletedBeforeIdle ==
    [][(\A u \in Threads : ~pt[u].replaced)
          => /\ \A t \in Threads :
                  /\ (pt[t].pc = "print" /\ pt'[t].pc = "sleep")
                       => /\ current_job.status = "printing"
                          /\ current_job'.status = "completed"
                          /\ current_job'.paid = current_job.paid
                  /\ (pt[t].pc = "sleep" /\ pt'[t].pc = "reset")
                       => /\ current_job.status = "completed"
                          /\ current_job'.status = "completed"
                          /\ current_job'.paid = 0
                  /\ (pt[t].pc = "reset" /\ pt'[t].pc = "none")
                       => /\ current_job.status = "completed"
                          /\ current_job'.status = "idle"
                          /\ current_job'.paid = 0
             /\ (current_job'.status = "idle" /\ current_job.status # "idle")
                  => /\ current_job.status = "completed"
                     /\ \E t \in Threads : pt[t].pc = "reset"]_vars

C19_Witness ==
    /\ \E t \in Threads : pt[t].pc = "reset" /\ ~pt[t].replaced
    /\ \A t \in Threads : ~pt[t].replaced
    /\ current_job.status = "completed"
    /\ current_job.paid = 0
    /\ current_job.cost > 0
    /\ current_job.current_page = current_job.total_pages
    /\ current_job.total_pages > 0

(* C20: when the spooler reports failure, status becomes error and paid is
   not reset; from then on, until an upload installs a fresh job, the status
   is never uploaded again, so no print is dispatched and no coin is
   accepted. *)
C20_FailureNeedsUpload ==
    [][/\ (\E t \in Threads : pt[t].pc = "print" /\ pt'[t].pc = "none")
            => /\ current_job'.status = "error"
               /\ current_job'.paid = current_job.paid
       /\ (current_job.status # "uploaded" /\ resp'.op # "upload")
            => /\ current_job'.status # "uploaded"
               /\ \A t \in Threads : pt'[t].pc = "begin" => pt[t].pc = "begin"
               /\ resp'.op \in {"coin_inserted", "start_print"}
                      => (~resp'.ok /\ current_job'.paid = current_job.paid)]_vars

C20_Witness ==
    /\ current_job.status = "error"
    /\ current_job.paid = 10
    /\ pt = NoThreads
    /\ resp.op = "coin_inserted"
    /\ resp.error = "Cannot accept coins at this time"

-----------------------------------------------------------------------------
(* C21: get_pending_coin, finding a pending coin detected more than 30 s
   ago, clears it and reports has_pending false; finding one detected at
   most 30 s ago, it reports it with has_pending true and leaves it in
   place; in both cases paid, cost and status are unchanged. *)
C21_QueryExpiresPending ==
    [][(resp'.op = "pending_coin" /\ Truthy(current_job.pending_coin))
          => /\ (now - current_job.pending_coin_time) > PendingExpiry
                  => /\ current_job'.pending_coin = NoValue
                     /\ resp'.pending_coin = NoValue
                     /\ ~resp'.has_pending
             /\ (now - current_job.pending_coin_time) <= PendingExpiry
                  => /\ resp'.pending_coin = current_job.pending_coin
                     /\ resp'.has_pending
                     /\ current_job'.pending_coin = current_job.pending_coin
                     /\ current_job'.pending_coin_time = current_job.pending_coin_time
             /\ current_job'.paid = current_job.paid
             /\ current_job'.cost = current_job.cost
             /\ current_job'.status = current_job.status]_vars

C21_Witness ==
    /\ resp.op = "pending_coin"
    /\ Truthy(resp.found)
    /\ ~resp.has_pending
    /\ current_job.pending_coin = NoValue
    /\ current_job.paid = 5
    /\ (now - current_job.pending_coin_time) > PendingExpiry

(* C22: the job record holds one pending coin.  A hardware detection sets it
   to the detected value and the time of the detection, whether or not a
   coin was pending, and touches nothing else; no other step makes a coin
   pending or changes the pending one except to clear it.  A confirmation
   that finds a pending coin credits that coin's value once and clears it,
   and a confirmation stating the value of a replaced coin is rejected. *)
C22_LastDetectedWins ==
    [][/\ resp'.op = "coin_callback"
            => /\ current_job'.pending_coin = Some(resp'.value)
               /\ current_job'.pending_coin_time = now
               /\ current_job' = [current_job EXCEPT
                                     !.pending_coin = Some(resp'.value),
                                     !.pending_coin_time = now]
       /\ (resp'.op \notin {"coin_callback", "simulate_coin"}
             /\ current_job'.pending_coin # current_job.pending_coin)
            => current_job'.pending_coin = NoValue
       /\ (resp'.op = "coin_inserted" /\ resp'.ok /\ Truthy(current_job.pending_coin))
            => /\ current_job'.paid = current_job.paid + current_job.pending_coin[1]
               /\ current_job'.pending_coin = NoValue
       /\ (/\ resp.op = "coin_callback" /\ Truthy(resp.found)
           /\ resp.found[1] # resp.value
           /\ resp'.op = "coin_inserted" /\ resp'.value = resp.found[1])
            => /\ ~resp'.ok
               /\ current_job'.paid = current_job.paid
               /\ current_job'.pending_coin = Some(resp.value)]_vars

C22_Witness ==
    /\ resp.op = "coin_callback"
    /\ resp.found = Some(5)
    /\ resp.value = 10
    /\ current_job.pending_coin = Some(10)
    /\ current_job.pending_coin_time = now
    /\ now > StartTime
    /\ current_job.status = "uploaded"
    /\ current_job.cost > 0

(* C23: a coin is pending only when the status uploaded has been reached
   since the job was last reset: while the job is idle, at startup or after
   a completed print, no coin is pending. *)
C23_PendingOnlyAfterUpload ==
    current_job.status = "idle" => current_job.pending_coin = NoValue

(* C24: when the hardware initialization has failed, initialized is false
   and stays false, no callback is registered, the decoder counts nothing
   and no coin is ever pending; a confirmation of a positive value then
   succeeds and credits that value whenever a file is uploaded, cost > 0 and
   the status is uploaded. *)
C24_ManualEntryWithoutHardware ==
    [][~initialized
          => /\ ~initialized' /\ ~callback'
             /\ resp'.op # "coin_callback"
             /\ ~(resp'.op = "simulate_coin" /\ resp'.ok)
             /\ pulse_count' = 0
             /\ current_job.pending_coin = NoValue
             /\ current_job'.pending_coin = NoValue
             /\ (/\ resp'.op = "coin_inserted" /\ resp'.value > 0
                 /\ current_job.file_path # None /\ current_job.cost > 0
                 /\ current_job.status = "uploaded")
                  => /\ resp'.ok
                     /\ current_job'.paid = current_job.paid + resp'.value
                     /\ resp'.paid = current_job'.paid]_vars

C24_Witness ==
    /\ ~initialized
    /\ resp.op = "coin_inserted"
    /\ resp.ok
    /\ resp.value = 5
    /\ resp.found = NoValue
    /\ resp.can_print
    /\ current_job.paid = 10
    /\ current_job.pending_coin = NoValue

-----------------------------------------------------------------------------
(* C25: an edge handled less than 10 ms after the previous edge is discarded
   as bounce: it changes neither pulse_count nor last_pulse_time. *)
C25_BounceDiscarded ==
    [][fin'.edge = "bounce"
          => /\ pulse_count' = pulse_count
             /\ last_pulse_time' = last_pulse_time]_vars

-----------------------------------------------------------------------------
(* The decoder with time passing and the Timer threads running: the clock
   advances, an armed Timer's wait ends, a Timer that waits for the lock gets
   it.  Edges arrive while the model's clock can still reach their deadline. *)

EdgeInTime(gap) ==
    /\ dnow + PulseTimeout < MaxDecTime
    /\ Edge(gap)

NextLive ==
    \/ \E gap \in Gaps : EdgeInTime(gap)
    \/ TimerExpire
    \/ TimerCallback
    \/ DecTick
    \/ \E f \in Files, ft \in FileTypes, p \in UploadPages : Upload(f, ft, p)

SpecLive ==
    /\ InitDec
    /\ [][NextLive]_vars
    /\ WF_vars(TimerExpire)
    /\ WF_vars(TimerCallback)
    /\ WF_vars(DecTick)

(* The deadline timer has finalized the open sequence: the step was no edge *)
TimerFinalized == fin.n > 0 /\ fin.edge = "none" /\ pulse_count = 0

(* C26: every edge arms the deadline timer anew, one pulse_timeout after the
   edge; and an open pulse sequence is eventually finalized by the timer,
   with the coin callback called for a valid count, unless a further edge
   arrives or an upload resets the decoder first. *)
C26_LastCoinFinalized ==
    /\ [][fin'.edge # "none" => timer' = dnow + PulseTimeout]_vars
    /\ [][(fin'.n > 0 /\ fin'.edge = "none")
             => /\ pulse_count' = 0
                /\ fin'.n = pulse_count
                /\ fin'.n \in COIN_VALUES
                     => /\ fin'.called
                        /\ current_job'.pending_coin = Some(fin'.n)]_vars
    /\ (pulse_count > 0 /\ fin.edge = "none")
          ~> (TimerFinalized \/ fin.edge # "none" \/ resp.op = "upload")

C26_Witness ==
    /\ TimerFinalized
    /\ fin.n = 5
    /\ fin.called
    /\ burst.n = 5
    /\ burst.vals = <<5>>
    /\ ~burst.reset
    /\ current_job.pending_coin = Some(5)

-----------------------------------------------------------------------------
(* start_print one statement at a time against the print thread it starts,
   every thread being scheduled again and again: a request that is inside
   start_print goes on to its next statement, a print thread that is alive
   goes on to its next step.  The other requests are handled in one step. *)

FairCostRequests == { d \in CostRequests : d.page_range = NoRange }
FairCoins == {10}

StartPrintStep == SpCheck("r1") \/ SpDispatch("r1") \/ SpSetStatus("r1")

PrintThreadStep ==
    \E t \in Threads :
        PtBegin(t) \/ PtSucceed(t) \/ PtFail(t) \/ PtRaise(t)
            \/ PtResetPaid(t) \/ PtIdle(t)

NextFair ==
    \/ \E f \in Files, p \in UploadPages : Upload(f, "document", p)
    \/ \E d \in FairCostRequests : CalculateCost(d)
    \/ \E v \in FairCoins : CoinInserted(v)
    \/ SpEnter("r1")
    \/ StartPrintStep
    \/ PrintThreadStep

SpecFair ==
    /\ Init
    /\ [][NextFair]_vars
    /\ WF_vars(StartPrintStep)
    /\ WF_vars(PrintThreadStep)

(* C27: with the request handler and the print thread scheduled fairly, a
   job whose status is printing is eventually resolved to idle or to error,
   unless an upload replaces it. *)
C27_PrintResolves ==
    (current_job.status = "printing")
        ~> (current_job.status \in {"idle", "error"} \/ resp.op = "upload")

-----------------------------------------------------------------------------
(* C28: an edge handled more than pulse_timeout after the previous edge (or
   the first edge) finalizes the counted pulses, if any, exactly as counted,
   and starts a new sequence with pulse_count = 1; any other edge only adds
   1 to pulse_count, finalizes nothing and leaves the job record alone. *)
C28_EdgeSegmentsByTiming ==
    [][fin'.edge # "none"
          => IF burst.n = 0 \/ (dnow - burst.last) > PulseTimeout
             THEN /\ pulse_count' = 1
                  /\ fin'.n = pulse_count
                  /\ fin'.n \in COIN_VALUES
                       => /\ fin'.called
                          /\ current_job'.pending_coin = Some(fin'.n)
                  /\ fin'.n \notin COIN_VALUES => current_job' = current_job
             ELSE /\ pulse_count' = pulse_count + 1
                  /\ fin'.n = 0
                  /\ current_job' = current_job]_vars

C28_Witness ==
    /\ fin.edge = "pulse"
    /\ fin.n = 5
    /\ fin.called
    /\ pulse_count = 1
    /\ closed.n = 5
    /\ closed.vals = <<5>>
    /\ current_job.pending_coin = Some(5)

-----------------------------------------------------------------------------
(* Two confirmations at once: both request threads are inside coin_inserted,
   one statement at a time.  A coin is detected between confirmations, so
   the requests in flight deal with one and the same pending coin. *)

TwoConfirmCostRequests == { d \in CostRequests : d.page_range = NoRange }
TwoConfirmCoins == {5, 10}

Detection(value) ==
    /\ rq = NoRequests
    /\ HardwareCoin(value)

NextConfirm ==
    \/ \E f \in Files, p \in UploadPages : Upload(f, "document", p)
    \/ \E d \in TwoConfirmCostRequests : CalculateCost(d)
    \/ \E v \in TwoConfirmCoins : Detection(v)
    \/ \E r \in Requests :
          \/ \E v \in TwoConfirmCoins : CiFile(r, v)
          \/ CiCheck(r)
          \/ CiReadPending(r)
          \/ CiClearPending(r)
          \/ CiAdd(r)

SpecConfirm == InitConc /\ [][NextConfirm]_vars

(* The requests that have read the pending coin (line 409), found their
   value to match it, and go on to clear it and to add it to paid *)
Holders ==
    { r \in Requests : rq[r].op = "coin_inserted" /\ Truthy(rq[r].found) }

(* C29: of two confirmations of the same pending coin handled at once, at
   most one gets to credit it: no two requests are past the read of the
   pending coin with that coin to add to paid. *)
C29_ConcurrentConfirmOnce ==
    Cardinality(Holders) <= 1

-----------------------------------------------------------------------------
(* upload_file against the decoder: the request thread replaces the job
   record (lines 178-193) and resets the decoder (line 197) in two steps,
   and the edge handler and the Timer threads run in between *)

NextUpDec ==
    \/ \E gap \in Gaps : Edge(gap)
    \/ TimerExpire
    \/ TimerCallback
    \/ DecTick
    \/ \E f \in Files, ft \in FileTypes, p \in UploadPages :
           UpReplace("r2", f, ft, p)
    \/ UpReset("r2")

SpecUpDec == InitDec /\ [][NextUpDec]_vars

(* C30: under every interleaving of upload_file with the edge handler and
   the deadline timer, when the upload returns no coin is pending on the new
   job and the decoder holds no counted pulse. *)
C30_UploadDiscardsSequence ==
    [][resp'.op = "upload"
          => /\ current_job'.pending_coin = NoValue
             /\ pulse_count' = 0]_vars

-----------------------------------------------------------------------------
(* C31: a print thread works on the copy of the job taken when start_print
   dispatched it: the copy does not change while the thread is alive,
   whatever calculate_cost writes to the job afterwards, and the total_pages
   the thread reports is copies * (end - start + 1 for a page range, the
   page count otherwise) of that copy. *)
C31_PrintUsesSnapshot ==
    [][\A t \in Threads :
          /\ (pt[t].pc = "none" /\ pt'[t].pc = "begin")
               => pt'[t].job = Snapshot(current_job)
          /\ (pt[t].pc # "none" /\ pt'[t].pc # "none")
               => pt'[t].job = pt[t].job
          /\ (pt[t].pc = "begin" /\ pt'[t].pc = "print")
               => LET job == pt[t].job
                      P == IF job.page_range.kind = "range"
                           THEN job.page_range.end - job.page_range.start + 1
                           ELSE job.pages
                  IN  /\ pt'[t].total = job.copies * P
                      /\ current_job'.total_pages = job.copies * P]_vars

C31_Witness ==
    /\ pt["t1"].pc = "print"
    /\ ~pt["t1"].replaced
    /\ resp.op = "calculate_cost"
    /\ current_job.copies = 2
    /\ pt["t1"].job.copies = 1
    /\ current_job.color_mode # pt["t1"].job.color_mode
    /\ current_job.total_pages = 2
    /\ pt["t1"].total = 2

-----------------------------------------------------------------------------
(* The decoder with a coin callback that raises: _process_coin_now catches
   the exception (lines 147-152) and goes on to line 161.  The callback has
   then recorded nothing. *)

(* history: the burst after its counted pulses were finalized with a raise *)
FinalizedRaised(b) == [b EXCEPT !.fins = @ + 1]

(* _coin_pulse_callback, lines 95-127, when the callback called at line 149
   raises *)
EdgeRaise(gap) ==
    LET newBurst == burst.n = 0 \/ (dnow - burst.last) > PulseTimeout
        old == FinalizedRaised(burst)
    IN  /\ initialized
        /\ gap = "bounce" => dnow = last_pulse_time
        /\ NewSequence /\ CallbackInvoked(pulse_count)
        /\ pulse_count' = 1
        /\ last_pulse_time' = dnow
        /\ timer' = dnow + PulseTimeout
        /\ open' = 1
        /\ fin' = [FinOf(pulse_count) EXCEPT !.edge = gap, !.raised = TRUE]
        /\ burst' = IF newBurst
                    THEN [n |-> 1, vals |-> <<>>, fins |-> 0, reset |-> FALSE,
                          last |-> dnow]
                    ELSE [old EXCEPT !.n = @ + 1, !.last = dnow]
        /\ closed' = IF newBurst THEN old ELSE closed
        /\ resp' = NoResponse
        /\ UNCHANGED <<current_job, pt, now, credited, inserted, hwVars, fired,
                       dnow, rq>>

(* A timer callback that lets the exception of the coin callback escape
   before line 161 *)
TimerCallbackRaise_escape ==
    /\ fired > 0
    /\ CallbackInvoked(pulse_count)
    /\ fired' = fired - 1
    /\ fin' = [FinOf(pulse_count) EXCEPT !.raised = TRUE]
    /\ burst' = FinalizedRaised(burst)
    /\ resp' = NoResponse
    /\ UNCHANGED <<current_job, pt, now, credited, inserted, hwVars, pulse_count,
                   open, last_pulse_time, timer, dnow, closed, rq>>

(* _process_coin, lines 129-132, when the callback called at line 149 raises *)
TimerCallbackRaise ==
    /\ fired > 0
    /\ CallbackInvoked(pulse_count)
    /\ fired' = fired - 1
    /\ pulse_count' = 0
    /\ open' = 0
    /\ fin' = [FinOf(pulse_count) EXCEPT !.raised = TRUE]
    /\ burst' = FinalizedRaised(burst)
    /\ resp' = NoResponse
    /\ UNCHANGED <<current_job, pt, now, credited, inserted, hwVars,
                   last_pulse_time, timer, dnow, closed, rq>>

NextFault ==
    \/ \E gap \in Gaps : Edge(gap)
    \/ \E gap \in Gaps : EdgeRaise(gap)
    \/ TimerExpire
    \/ TimerCallback
    \/ TimerCallbackRaise
    \/ DecTick

SpecFault == InitDec /\ [][NextFault]_vars

(* C32: a finalization whose callback raises, or whose pulse count is no
   coin value, records nothing on the job and still ends the sequence:
   pulse_count is 0 after the timer's finalization and 1 after an edge's,
   and the edge handler completes (the timestamp is set and the timer
   armed).  Whatever happened before, a finalization of a valid count whose
   callback does not raise records the coin as pending. *)
C32_AnomaliesAbsorbed ==
    [][fin'.n > 0
          => /\ fin'.n = pulse_count
             /\ pulse_count' = (IF fin'.edge = "none" THEN 0 ELSE 1)
             /\ fin'.edge # "none"
                  => (last_pulse_time' = dnow /\ timer' = dnow + PulseTimeout)
             /\ (fin'.raised \/ fin'.n \notin COIN_VALUES)
                  => current_job' = current_job
             /\ (~fin'.raised /\ fin'.n \in COIN_VALUES)
                  => /\ fin'.called
                     /\ current_job'.pending_coin = Some(fin'.n)]_vars

C32_Witness ==
    /\ closed.n = 1
    /\ closed.fins = 1
    /\ closed.vals = <<>>
    /\ burst.n = 5
    /\ burst.vals = <<5>>
    /\ fin.n = 5
    /\ ~fin.raised
    /\ pulse_count = 0
    /\ current_job.pending_coin = Some(5)

-----------------------------------------------------------------------------
(* C33: a print thread that ends otherwise than by completing its job (an
   exception before, during or after the print, or a reported failure)
   leaves the status error and paid as it was; a thread never ends leaving
   the status printing or completed. *)
C33_ExceptionMarksError ==
    [][\A t \in Threads :
          (pt[t].pc # "none" /\ pt'[t].pc = "none")
             => \/ /\ pt[t].pc = "reset"
                   /\ current_job'.status = "idle"
                \/ /\ pt[t].pc # "reset"
                   /\ current_job'.status = "error"
                   /\ current_job'.paid = current_job.paid]_vars

C33_Witness ==
    /\ current_job.status = "error"
    /\ current_job.total_pages > 0
    /\ current_job.current_page = current_job.total_pages
    /\ current_job.paid = 10
    /\ current_job.cost = 10
    /\ pt = NoThreads

-----------------------------------------------------------------------------
(* C34: a Timer superseded by a later edge finalizes nothing: the timer
   finalizes a sequence only when pulse_timeout has elapsed since the last
   edge of that sequence. *)
C34_SupersededTimerIdle ==
    [][(fin'.n > 0 /\ fin'.edge = "none")
          => (dnow - burst.last) >= PulseTimeout]_vars

-----------------------------------------------------------------------------
(* C35: the steps of a print thread whose job an upload has replaced do not
   modify the new job: they change neither its status nor its paid. *)
C35_OldPrintLeavesNewJob ==
    [][\A t \in Threads :
          (pt[t].replaced /\ pt[t].pc # "none" /\ pt'[t].pc # pt[t].pc)
             => /\ current_job'.status = current_job.status
                /\ current_job'.paid = current_job.paid]_vars

-----------------------------------------------------------------------------
(* Two start_print requests at once: both request threads are inside
   start_print, one statement at a time; the other requests are handled in
   one step, and every print ends with the spooler reporting a failure *)

TwoStartCostRequests ==
    { d \in CostRequests : d.page_range = NoRange /\ d.copies = 1 }
TwoStartCoins == {10}

NextStart ==
    \/ \E f \in Files, p \in UploadPages : Upload(f, "document", p)
    \/ \E d \in TwoStartCostRequests : CalculateCost(d)
    \/ \E v \in TwoStartCoins : CoinInserted(v)
    \/ \E r \in Requests :
          \/ SpCost(r)
          \/ SpCheck(r)
          \/ SpDispatchAny(r)
          \/ SpSetStatus(r)
    \/ \E t \in Threads : PtBegin(t)
    \/ \E t \in Threads : PtFail(t)

SpecStart == Init /\ [][NextStart]_vars

(* The print threads that are alive and were started for the job that is
   still the current one *)
PrintsOfJob ==
    { t \in Threads : pt[t].pc # "none" /\ ~pt[t].replaced }

(* C36: at most one print is dispatched for a job: no two print threads
   are alive that were both started for the current job. *)
C36_OnePrintPerJob ==
    Cardinality(PrintsOfJob) <= 1


(* ------------------------------------------------------------------ *)
(* C37: paid increases only while status == "uploaded": whenever a    *)
(* step credits a coin to paid (the addition of line 440), the job's  *)
(* status at that moment is "uploaded"; no coin is credited once the  *)
(* status has become printing, completed, error or idle.              *)
(* ------------------------------------------------------------------ *)
C37_CreditOnlyWhileUploaded ==
    [][current_job'.paid > current_job.paid => current_job.status = "uploaded"]_vars


(* ------------------------------------------------------------------ *)
(* C38: the can_print flag answered by payment_status and by a         *)
(* successful coin_inserted is true exactly when start_print, issued   *)
(* in the state the answer was computed in, would pass its checks; the *)
(* answered remaining is never negative and is 0 exactly when          *)
(* paid >= cost.                                                       *)
(* ------------------------------------------------------------------ *)
C38_CanPrintMatchesStart ==
    [][(resp'.op = "payment_status" \/ (resp'.op = "coin_inserted" /\ resp'.ok))
          => /\ resp'.can_print <=> (Authorize(current_job') = "")
             /\ resp'.remaining >= 0
             /\ (resp'.remaining = 0) <=> (current_job'.paid >= current_job'.cost)]_vars

C38_Witness ==
    /\ resp.op = "payment_status"
    /\ resp.can_print
    /\ resp.remaining = 0
    /\ credited > 0
    /\ Authorize(current_job) = ""


(* ------------------------------------------------------------------ *)
(* C39: calculate_cost changes only cost, copies, page_range,          *)
(* orientation and color_mode of the job: every other field of the     *)
(* record, paid, status, file_path, pages and the pending coin among   *)
(* them, is the same after the request as before it, whatever the      *)
(* status of the job.                                                  *)
(* ------------------------------------------------------------------ *)
CostFields == {"cost", "copies", "page_range", "orientation", "color_mode"}

C39_CostFrame ==
    [][resp'.op = "calculate_cost"
          => /\ \A f \in (DOMAIN current_job) \ CostFields :
                    current_job'[f] = current_job[f]
             /\ current_job'.paid = current_job.paid
             /\ current_job'.status = current_job.status
             /\ current_job'.file_path = current_job.file_path
             /\ current_job'.pages = current_job.pages
             /\ current_job'.pending_coin = current_job.pending_coin
             /\ current_job'.pending_coin_time = current_job.pending_coin_time]_vars

C39_Witness ==
    /\ resp.op = "calculate_cost"
    /\ current_job.status = "printing"
    /\ current_job.paid > 0
    /\ current_job.pending_coin # NoValue
    /\ current_job.cost > current_job.paid


-----------------------------------------------------------------------------
(* upload_file on a request it refuses or fails on, as a function of the
   state it finds: every status, paid, cost, pending coin and pulse count *)

NextReject ==
    \/ \E f \in Files, ft \in FileTypes, p \in UploadPages : Upload(f, ft, p)
    \/ \E u \in UploadRequests : UploadRejected(u)

SpecReject == InitUp /\ [][NextReject]_vars

(* ------------------------------------------------------------------ *)
(* C40: an upload that is refused (no file part, empty filename,       *)
(* extension not allowed) or that fails with an exception while the    *)
(* file is saved or processed leaves the job record, status, paid,     *)
(* cost and pending coin included, and the decoder's pulse count,      *)
(* last pulse time, timer and queued callbacks as they were.           *)
(* ------------------------------------------------------------------ *)
C40_RejectedUploadNoEffect ==
    [][(resp'.op = "upload" /\ ~resp'.ok)
          => /\ current_job' = current_job
             /\ pulse_count' = pulse_count
             /\ last_pulse_time' = last_pulse_time
             /\ timer' = timer
             /\ fired' = fired]_vars

C40_Witness ==
    /\ resp.op = "upload"
    /\ ~resp.ok
    /\ resp.error = "Upload error"
    /\ current_job.status = "uploaded"
    /\ current_job.cost > 0
    /\ current_job.paid > 0
    /\ current_job.pending_coin # NoValue
    /\ pulse_count > 0

====
